---- MODULE Spec2Model ----
(***************************************************************************)
(* quart-prometheus-logger: the PrometheusRegistry extension               *)
(* (src/quart_prometheus_logger.py) together with the two collaborators    *)
(* its behaviour depends on: the process-wide prometheus_client REGISTRY   *)
(* and the Quart request pipeline that calls the hooks init_app registers. *)
(*                                                                         *)
(* Every hook is a synchronous Python function, so it runs atomically in   *)
(* the event loop: one action per hook call.  The hooks of different       *)
(* requests interleave between those calls.                                *)
(***************************************************************************)
EXTENDS Integers, Sequences, FiniteSets, TLC

VARIABLES
    REGISTRY,            \* prometheus_client.REGISTRY: the set of registered collector ids
    heap,                \* collector id -> metric object (name, kind, labelnames, samples)
    collectors,          \* self._collectors: metric name -> collector id
    custom_labeler,      \* self._custom_labeler: <<>> (None) or <<dict the labeler returns>>
    custom_label_names,  \* self._custom_label_names
    builds,              \* number of metric generations allocated so far
    app,                 \* the hooks and the route the host has registered
    reqs,                \* the requests seen so far, each with its context g and position
    last                 \* the last call of the public API outside a request, with its outcome

vars == <<REGISTRY, heap, collectors, custom_labeler, custom_label_names, builds, app, reqs,
          last>>

----------------------------------------------------------------------------
(* Bounds of the model *)

MaxRequests == 1       \* requests, where custom_route_labeler runs amid the traffic
MaxConcurrent == 2     \* requests in flight together, where it does not
MaxRebuilds == 1       \* calls of custom_route_labeler
MaxCount == 5          \* the count given to linear_bucket

(* Inputs *)

MetricsPath == "/metrics"

\* The requests that arrive: method, path, content_length (<< >> is None).
Requests ==
    {[method |-> "GET", path |-> "/", content_length |-> << >>],
     [method |-> "POST", path |-> "/a", content_length |-> <<3>>],
     [method |-> "GET", path |-> MetricsPath, content_length |-> << >>]}

\* The responses a view function returns: status_code, content_length (<< >> is None).
Responses ==
    {[status_code |-> 200, content_length |-> <<5>>],
     [status_code |-> 404, content_length |-> << >>]}

\* What a view function raises: an HTTPStatusException with its status and the length
\* of the body of its get_response(), or any other exception.
GenericFault == [http |-> FALSE, status |-> 500, content_length |-> <<0>>]
HttpFaults == {[http |-> TRUE, status |-> 404, content_length |-> <<7>>]}

\* The instants now_utc() returns.  Only the difference between the two readings of
\* one request reaches an instrument: the first reading is fixed, the second varies.
StartInstants == {0}
EndInstants == {0, 1}

\* The arguments of custom_route_labeler: the dict the labeler returns for a request,
\* and the declared label names.  The second labeler does not return the declared
\* names; the third and the fourth declare a name Histogram reserves.
EmptyDict == [k \in {} |-> "x"]
TenantDict == [k \in {"tenant"} |-> "t1"]
LabelerArgs ==
    {[labeler |-> TenantDict, label_names |-> <<"tenant">>],
     [labeler |-> EmptyDict, label_names |-> <<"tenant">>],
     [labeler |-> TenantDict, label_names |-> <<"le">>],
     [labeler |-> EmptyDict, label_names |-> <<"le">>]}
MetricNames ==
    {"http_requests", "http_requests_errors", "http_request_duration_seconds",
     "http_request_size_bytes", "http_response_size_bytes"}
GetNames == MetricNames \cup {"does_not_exist"}

\* The arguments of linear_bucket: start, width (above 0), count.
BucketStarts == {0, 100, 1000000}
BucketWidths == {1, 100, 10000}
BucketArgs == {<<s, w, c>> : s \in BucketStarts, w \in BucketWidths, c \in 0..MaxCount}

----------------------------------------------------------------------------
(* prometheus_client: metric objects and the registry *)

Range(s) == {s[i] : i \in 1..Len(s)}

\* list(range(start, stop, step)) for a step above 0
RECURSIVE PyRange(_, _, _)
PyRange(start, stop, step) ==
    IF start >= stop THEN << >> ELSE <<start>> \o PyRange(start + step, stop, step)

\* A linear_bucket whose range includes its end.
linear_bucket_inclusive(start, width, count) ==
    PyRange(start, start + width * count + 1, width)

\* linear_bucket(start, width, count)
linear_bucket(start, width, count) == PyRange(start, start + width * count, width)

\* The bucket tiers of the response-size and request-size histograms.
RESPONSE_BUCKETS ==
    linear_bucket(100, 100, 5) \o linear_bucket(1000, 1000, 5)
        \o linear_bucket(10000, 10000, 5) \o linear_bucket(1000000, 10000, 5)
REQUEST_BUCKETS ==
    linear_bucket(100, 100, 5) \o linear_bucket(1000, 1000, 5)
        \o linear_bucket(10000, 10000, 5) \o linear_bucket(1000000, 10000, 5)

\* The five metrics of _register_collectors, in the order they are constructed.
CollectorSpecs ==
    << [name |-> "http_requests", kind |-> "Counter",
        fixed |-> <<"method", "path", "status">>],
       [name |-> "http_requests_errors", kind |-> "Counter",
        fixed |-> <<"method", "path", "status">>],
       [name |-> "http_request_duration_seconds", kind |-> "Histogram",
        fixed |-> <<"path">>],
       [name |-> "http_request_size_bytes", kind |-> "Histogram",
        fixed |-> <<"path">>],
       [name |-> "http_response_size_bytes", kind |-> "Histogram",
        fixed |-> <<"path">>] >>

\* Label names a metric class refuses (Histogram reserves "le").
ReservedLabelNames(kind) == IF kind = "Histogram" THEN {"le"} ELSE {}

NoSamples == [lv \in {} |-> 0]

\* generate_latest(): the metrics registered in REGISTRY, each with its series.
render(reg, h) ==
    {[name |-> h[id].name, labelnames |-> h[id].labelnames, samples |-> h[id].samples] :
        id \in reg}

\* Counter(...)/Histogram(...): validate the label names, then register in REGISTRY,
\* which refuses a second metric of the same name.  st = [REGISTRY, heap, made, err].
NewMetric(st, spec, extra, gen) ==
    LET labelnames == spec.fixed \o extra
        id == <<gen, spec.name>>
    IN  IF st.err # "none" THEN st
        ELSE IF Range(labelnames) \cap ReservedLabelNames(spec.kind) # {}
        THEN [st EXCEPT !.err = "ValueError"]
        ELSE IF \E other \in st.REGISTRY : st.heap[other].name = spec.name
        THEN [st EXCEPT !.err = "ValueError"]
        ELSE [REGISTRY |-> st.REGISTRY \cup {id},
              heap |-> [i \in DOMAIN st.heap \cup {id} |->
                          IF i = id
                          THEN [name |-> spec.name, kind |-> spec.kind,
                                labelnames |-> labelnames, samples |-> NoSamples]
                          ELSE st.heap[i]],
              made |-> Append(st.made, id),
              err |-> "none"]

RECURSIVE NewMetrics(_, _, _, _)
NewMetrics(st, k, extra, gen) ==
    IF k > Len(CollectorSpecs) THEN st
    ELSE NewMetrics(NewMetric(st, CollectorSpecs[k], extra, gen), k + 1, extra, gen)

\* REGISTRY.unregister(collector): KeyError when the collector is not registered.
Unregister(st, id) ==
    IF st.err # "none" THEN st
    ELSE IF id \notin st.REGISTRY THEN [st EXCEPT !.err = "KeyError"]
    ELSE [st EXCEPT !.REGISTRY = st.REGISTRY \ {id}]

RECURSIVE UnregisterAll(_, _, _)
UnregisterAll(st, ids, k) ==
    IF k > Len(ids) THEN st ELSE UnregisterAll(Unregister(st, ids[k]), ids, k + 1)

\* Metric objects nothing refers to any more are gone.
Collect(h, reg, colls) ==
    [i \in {j \in DOMAIN h : j \in reg \/ \E n \in DOMAIN colls : colls[n] = j} |-> h[i]]

----------------------------------------------------------------------------
(* PrometheusRegistry: the collector set *)

\* _register_collectors: the five metrics are constructed first, in order; the dict
\* of self._collectors is assigned only when all five constructors returned.
\* st = [REGISTRY, heap, made, err]; the result adds the new value of self._collectors.
register_collectors(st, colls, extra, gen) ==
    LET built == NewMetrics([st EXCEPT !.made = << >>], 1, extra, gen)
    IN  [REGISTRY |-> built.REGISTRY,
         heap |-> built.heap,
         err |-> built.err,
         collectors |-> IF built.err = "none"
                        THEN [n \in {nm \in MetricNames :
                                        \E k \in 1..Len(built.made) :
                                            built.heap[built.made[k]].name = nm}
                                |-> CHOOSE id \in Range(built.made) : built.heap[id].name = n]
                        ELSE colls]

\* The order self._collectors.items() iterates in: insertion order.
CollectorIds(colls) ==
    LET present == {k \in 1..Len(CollectorSpecs) : CollectorSpecs[k].name \in DOMAIN colls}
        Pick[k \in 0..Len(CollectorSpecs)] ==
            IF k = 0 THEN << >>
            ELSE IF k \in present THEN Append(Pick[k - 1], colls[CollectorSpecs[k].name])
            ELSE Pick[k - 1]
    IN  Pick[Len(CollectorSpecs)]

\* A get that falls back to the first collector for a name it does not hold.
get_lenient(colls, name) ==
    IF name \in DOMAIN colls
    THEN [err |-> "none", ret |-> <<colls[name]>>]
    ELSE [err |-> "none", ret |-> <<colls[CollectorSpecs[1].name]>>]

\* get(name): the collector, or KeyError.
get(colls, name) ==
    IF name \in DOMAIN colls
    THEN [err |-> "none", ret |-> <<colls[name]>>]
    ELSE [err |-> "KeyError", ret |-> << >>]

----------------------------------------------------------------------------
(* Observations *)

\* _status_is_error
ErrorThreshold == 400
\* A _status_is_error that takes only server errors for errors.
status_is_server_error(status_code) == status_code >= ErrorThreshold + 100

status_is_error(status_code) == status_code >= ErrorThreshold

\* An `x or 1`.
OrOne(opt) == IF opt = << >> THEN 1 ELSE opt[1]

\* `x or 0` on an optional integer
OrZero(opt) == IF opt = << >> THEN 0 ELSE opt[1]

\* metric.labels(**kwargs): the keyword names must be the metric's label names; the
\* child is keyed by the values in label-name order.
labels(m, kwargs) ==
    IF DOMAIN kwargs = Range(m.labelnames) /\ Cardinality(DOMAIN kwargs) = Len(m.labelnames)
    THEN [err |-> "none", lv |-> [i \in 1..Len(m.labelnames) |-> kwargs[m.labelnames[i]]]]
    ELSE [err |-> "ValueError", lv |-> << >>]

\* Counter child .inc() / Histogram child .observe(v)
Record(m, lv, v) ==
    LET old == IF lv \in DOMAIN m.samples THEN m.samples[lv]
               ELSE IF m.kind = "Counter" THEN 0 ELSE [count |-> 0, sum |-> 0]
        new == IF m.kind = "Counter" THEN old + 1
               ELSE [count |-> old.count + 1, sum |-> old.sum + v]
    IN  [m EXCEPT !.samples = [k \in DOMAIN m.samples \cup {lv} |->
                                  IF k = lv THEN new ELSE m.samples[k]]]

\* self.get(name).labels(<fixed>, **extra).observe(v) or .inc(); st = [heap, err].
\* A keyword given twice is a TypeError of the call itself.
Observe(st, colls, name, fixed, extra, v) ==
    LET got == get(colls, name)
        kwargs == [k \in DOMAIN fixed \cup DOMAIN extra |->
                     IF k \in DOMAIN fixed THEN fixed[k] ELSE extra[k]]
        child == labels(st.heap[got.ret[1]], kwargs)
    IN  IF st.err # "none" THEN st
        ELSE IF got.err # "none" THEN [st EXCEPT !.err = got.err]
        ELSE IF DOMAIN fixed \cap DOMAIN extra # {} THEN [st EXCEPT !.err = "TypeError"]
        ELSE IF child.err # "none" THEN [st EXCEPT !.err = child.err]
        ELSE [st EXCEPT !.heap[got.ret[1]] = Record(@, child.lv, v)]

\* self._custom_labeler(request) if self._custom_labeler else {}
LabelsFor(labeler) == IF labeler = << >> THEN EmptyDict ELSE labeler[1]

----------------------------------------------------------------------------
(* The hooks of init_app.  rq is the request with its context g; t is now_utc(). *)

\* A start hook that also serves the exposition path.
start_request_everywhere(h, colls, labeler, rq, t) ==
    LET st == Observe([heap |-> h, err |-> "none"], colls, "http_request_size_bytes",
                      [path |-> rq.path], LabelsFor(labeler), OrZero(rq.content_length))
    IN  [g |-> <<t>>, heap |-> st.heap, err |-> st.err]

\* A start hook that observes the request size and forgets the start time.
start_request_forgets(h, colls, labeler, rq, t) ==
    IF rq.path = MetricsPath
    THEN [g |-> rq.g, heap |-> h, err |-> "none"]
    ELSE LET st == Observe([heap |-> h, err |-> "none"], colls, "http_request_size_bytes",
                           [path |-> rq.path], LabelsFor(labeler), OrZero(rq.content_length))
         IN  [g |-> rq.g, heap |-> st.heap, err |-> st.err]

start_request(h, colls, labeler, rq, t) ==
    IF rq.path = MetricsPath
    THEN [g |-> rq.g, heap |-> h, err |-> "none"]
    ELSE LET st == Observe([heap |-> h, err |-> "none"], colls, "http_request_size_bytes",
                           [path |-> rq.path], LabelsFor(labeler), OrZero(rq.content_length))
         IN  [g |-> <<t>>, heap |-> st.heap, err |-> st.err]

\* Observations that leave the size of an error response out.
Observations_unsized(h, colls, labeler, rq, response, end) ==
    LET extra == LabelsFor(labeler)
        full == [method |-> rq.method, path |-> rq.path,
                 status |-> ToString(response.status_code)]
        s0 == [heap |-> h, err |-> "none"]
        s1 == Observe(s0, colls, "http_request_duration_seconds",
                      [path |-> rq.path], extra, end)
        s2 == IF status_is_error(response.status_code) THEN s1
              ELSE Observe(s1, colls, "http_response_size_bytes",
                           [path |-> rq.path], extra, OrZero(response.content_length))
        s3 == Observe(s2, colls, "http_requests", full, extra, 1)
        s4 == IF status_is_error(response.status_code)
              THEN Observe(s3, colls, "http_requests_errors", full, extra, 1)
              ELSE s3
    IN  [heap |-> s4.heap, err |-> s4.err,
         ret |-> IF s4.err = "none" THEN <<response>> ELSE << >>]

\* Lines 92-106 of end_request: the observations of a response, end being the elapsed
\* time.  An exception leaves what was observed before it and returns nothing.
Observations(h, colls, labeler, rq, response, end) ==
    LET extra == LabelsFor(labeler)
        full == [method |-> rq.method, path |-> rq.path,
                 status |-> ToString(response.status_code)]
        s0 == [heap |-> h, err |-> "none"]
        s1 == Observe(s0, colls, "http_request_duration_seconds",
                      [path |-> rq.path], extra, end)
        s2 == Observe(s1, colls, "http_response_size_bytes",
                      [path |-> rq.path], extra, OrZero(response.content_length))
        s3 == Observe(s2, colls, "http_requests", full, extra, 1)
        s4 == IF status_is_error(response.status_code)
              THEN Observe(s3, colls, "http_requests_errors", full, extra, 1)
              ELSE s3
    IN  [heap |-> s4.heap, err |-> s4.err,
         ret |-> IF s4.err = "none" THEN <<response>> ELSE << >>]

\* An end hook that observes a request with no start time as one that took no time.
end_request_unguarded(h, colls, labeler, rq, response, t) ==
    IF rq.path = MetricsPath
    THEN [heap |-> h, err |-> "none", ret |-> <<response>>]
    ELSE Observations(h, colls, labeler, rq, response,
                      IF rq.g = << >> THEN 0 ELSE t - rq.g[1])

\* An end hook that returns an error response as an empty one.
end_request_rewrites(h, colls, labeler, rq, response, t) ==
    LET sent == IF status_is_error(response.status_code)
                THEN [response EXCEPT !.content_length = <<0>>]
                ELSE response
    IN  IF rq.path = MetricsPath
        THEN [heap |-> h, err |-> "none", ret |-> <<response>>]
        ELSE IF rq.g = << >>
        THEN [heap |-> h, err |-> "none", ret |-> <<response>>]
        ELSE LET out == Observations(h, colls, labeler, rq, response, t - rq.g[1])
             IN  [out EXCEPT !.ret = IF out.err = "none" THEN <<sent>> ELSE << >>]

end_request(h, colls, labeler, rq, response, t) ==
    IF rq.path = MetricsPath
    THEN [heap |-> h, err |-> "none", ret |-> <<response>>]
    ELSE IF rq.g = << >>
    THEN [heap |-> h, err |-> "none", ret |-> <<response>>]
    ELSE Observations(h, colls, labeler, rq, response, t - rq.g[1])

\* exc.get_response() for an HTTPException, Response("", 500) for anything else
ErrorResponse(exc) ==
    IF exc.http
    THEN [status_code |-> exc.status, content_length |-> exc.content_length]
    ELSE [status_code |-> 500, content_length |-> <<0>>]

abort_with_error(h, colls, labeler, rq, exc, t) ==
    end_request(h, colls, labeler, rq, ErrorResponse(exc), t)

----------------------------------------------------------------------------
(* Reading the instruments *)

RECURSIVE SumCounts(_, _)
SumCounts(m, keys) ==
    IF keys = {} THEN 0
    ELSE LET k == CHOOSE x \in keys : TRUE
             n == IF m.kind = "Counter" THEN m.samples[k] ELSE m.samples[k].count
         IN  n + SumCounts(m, keys \ {k})

\* Increments (Counter) or observations (Histogram) a metric object holds, over all
\* of its label combinations.
Count(m) == SumCounts(m, DOMAIN m.samples)

\* The same for the instrument self._collectors holds under name.
Total(h, colls, name) == IF name \in DOMAIN colls THEN Count(h[colls[name]]) ELSE 0

\* What one hook call added to each instrument.
Added(h1, h2, colls) == [n \in MetricNames |-> Total(h2, colls, n) - Total(h1, colls, n)]

NothingSeen == [n \in MetricNames |-> 0]

----------------------------------------------------------------------------
(* The host: what init_app registers, and the pipeline that calls it *)

NoHooks == [before_request |-> << >>, after_request |-> << >>,
            error_handler |-> << >>, url_rule |-> << >>]

\* An init_app that registers no error handler.
init_app_unhandled(a) ==
    [before_request |-> Append(a.before_request, "start_request"),
     after_request |-> Append(a.after_request, "end_request"),
     error_handler |-> a.error_handler,
     url_rule |-> Append(a.url_rule, MetricsPath)]

\* init_app: lines 115-119
init_app(a) ==
    [before_request |-> Append(a.before_request, "start_request"),
     after_request |-> Append(a.after_request, "end_request"),
     error_handler |-> Append(a.error_handler, "abort_with_error"),
     url_rule |-> Append(a.url_rule, MetricsPath)]

NewRequest(rq) ==
    [method |-> rq.method, path |-> rq.path, content_length |-> rq.content_length,
     pc |-> "before", g |-> << >>, exc |-> << >>, response |-> << >>, handled |-> FALSE,
     err |-> "none", started |-> FALSE, raised |-> << >>, seen |-> NothingSeen]

NoCall == [op |-> "none", arg |-> << >>, err |-> "none", ret |-> << >>]

Hooked == app.before_request # << >>

\* PrometheusRegistry(app): lines 66-71, against an empty process-wide REGISTRY.
Constructed ==
    register_collectors([REGISTRY |-> {}, heap |-> [i \in {} |-> 0], made |-> << >>,
                         err |-> "none"],
                        [n \in {} |-> 0], << >>, 1)

Init ==
    /\ REGISTRY = Constructed.REGISTRY
    /\ heap = Constructed.heap
    /\ collectors = Constructed.collectors
    /\ custom_labeler = << >>
    /\ custom_label_names = << >>
    /\ builds = 1
    /\ app \in {NoHooks, init_app(NoHooks)}
    /\ reqs = << >>
    /\ last = NoCall

registry_vars == <<REGISTRY, collectors, custom_labeler, custom_label_names, builds>>

\* registry.init_app(app, endpoint) on an app built without it
InitApp ==
    /\ ~Hooked
    /\ app' = init_app(app)
    /\ UNCHANGED <<registry_vars, heap, reqs, last>>

\* A request enters the pipeline: its context is pushed with an empty g.
Enter(rq, limit) ==
    /\ Hooked
    /\ Len(reqs) < limit
    /\ reqs' = Append(reqs, NewRequest(rq))
    /\ UNCHANGED <<registry_vars, heap, app, last>>

Arrive(rq) == Enter(rq, MaxRequests)

\* The host runs the before_request function: start_request.  An exception of it is
\* handed to the host's handling of unexpected exceptions.
BeforeRequest(r, t) ==
    /\ reqs[r].pc = "before"
    /\ LET out == start_request(heap, collectors, custom_labeler, reqs[r], t)
       IN  /\ heap' = out.heap
           /\ reqs' = [reqs EXCEPT ![r] =
                  [@ EXCEPT !.g = out.g, !.err = out.err, !.started = TRUE,
                            !.seen = [n \in MetricNames |->
                                        @[n] + Added(heap, out.heap, collectors)[n]],
                            !.pc = IF out.err = "none" THEN "view" ELSE "error",
                            !.exc = IF out.err = "none" THEN << >> ELSE <<GenericFault>>,
                            !.handled = out.err # "none"]]
    /\ UNCHANGED <<registry_vars, app, last>>

\* An earlier before_request function of the app answers the request itself: the
\* host skips the remaining ones, start_request among them, and finalizes its response.
SkipStart(r, response) ==
    /\ reqs[r].pc = "before"
    /\ reqs' = [reqs EXCEPT ![r] = [@ EXCEPT !.pc = "after", !.response = <<response>>]]
    /\ UNCHANGED <<registry_vars, heap, app, last>>

\* The view function returns a response.
ViewReturns(r, response) ==
    /\ reqs[r].pc = "view"
    /\ reqs' = [reqs EXCEPT ![r] = [@ EXCEPT !.pc = "after", !.response = <<response>>]]
    /\ UNCHANGED <<registry_vars, heap, app, last>>

\* The view function (or the routing) raises: an HTTPStatusException goes to the
\* handler registered for it, anything else to the host's handling of unexpected
\* exceptions, which looks the handler up for its status-500 exception.
ViewRaises(r, exc) ==
    /\ reqs[r].pc = "view"
    /\ reqs' = [reqs EXCEPT ![r] =
                  [@ EXCEPT !.pc = "error", !.exc = <<exc>>, !.handled = ~exc.http,
                            !.raised = <<exc>>]]
    /\ UNCHANGED <<registry_vars, heap, app, last>>

\* What the host does with an exception of a hook: the first one goes to its handling
\* of unexpected exceptions; one raised under that handling ends the request.
\* The request's context, g with it, is popped when the request is done.
Done(rq) == [rq EXCEPT !.pc = "done", !.g = << >>, !.exc = << >>, !.handled = FALSE]

AfterRaise(rq) ==
    IF rq.handled THEN Done(rq)
    ELSE [rq EXCEPT !.pc = "error", !.exc = <<GenericFault>>, !.handled = TRUE]

\* The host calls the registered error handler, abort_with_error, and finalizes the
\* response it returns.
ErrorHook(r, t) ==
    /\ reqs[r].pc = "error"
    /\ LET rq == reqs[r]
           out == abort_with_error(heap, collectors, custom_labeler, rq, rq.exc[1], t)
           ran == [rq EXCEPT !.err = out.err,
                             !.seen = [n \in MetricNames |->
                                         @[n] + Added(heap, out.heap, collectors)[n]]]
       IN  /\ heap' = out.heap
           /\ reqs' = [reqs EXCEPT ![r] =
                  IF out.err = "none"
                  THEN [ran EXCEPT !.pc = "after", !.response = out.ret]
                  ELSE AfterRaise(ran)]
    /\ UNCHANGED <<registry_vars, app, last>>

\* Finalizing a response, the host runs the after_request function: end_request.
AfterRequest(r, t) ==
    /\ reqs[r].pc = "after"
    /\ LET rq == reqs[r]
           out == end_request(heap, collectors, custom_labeler, rq, rq.response[1], t)
           ran == [rq EXCEPT !.err = out.err,
                             !.seen = [n \in MetricNames |->
                                         @[n] + Added(heap, out.heap, collectors)[n]]]
       IN  /\ heap' = out.heap
           /\ reqs' = [reqs EXCEPT ![r] =
                  IF out.err = "none"
                  THEN Done([ran EXCEPT !.response = out.ret])
                  ELSE AfterRaise(ran)]
    /\ UNCHANGED <<registry_vars, app, last>>

\* A custom_route_labeler that keeps the collectors it has.
custom_route_labeler_keeps(reg, h, colls, label_names, gen) ==
    [REGISTRY |-> reg, heap |-> h, err |-> "none", collectors |-> colls]

\* custom_route_labeler(labeler, label_names): lines 166-170
custom_route_labeler(reg, h, colls, label_names, gen) ==
    LET gone == UnregisterAll([REGISTRY |-> reg, heap |-> h, made |-> << >>, err |-> "none"],
                              CollectorIds(colls), 1)
    IN  IF gone.err # "none"
        THEN [REGISTRY |-> gone.REGISTRY, heap |-> gone.heap, err |-> gone.err,
              collectors |-> colls]
        ELSE register_collectors(gone, colls, label_names, gen)

CustomRouteLabeler(labeler, label_names) ==
    /\ builds < 1 + MaxRebuilds
    /\ LET out == custom_route_labeler(REGISTRY, heap, collectors, label_names, builds + 1)
       IN  /\ custom_labeler' = <<labeler>>
           /\ custom_label_names' = label_names
           /\ REGISTRY' = out.REGISTRY
           /\ collectors' = out.collectors
           /\ heap' = Collect(out.heap, out.REGISTRY, out.collectors)
           /\ last' = [op |-> "custom_route_labeler", arg |-> <<label_names>>,
                       err |-> out.err, ret |-> << >>]
    /\ builds' = builds + 1
    /\ UNCHANGED <<app, reqs>>

\* registry.get(name), called from outside the hooks
Get(name) ==
    /\ LET out == get(collectors, name)
       IN  last' = [op |-> "get", arg |-> <<name>>, err |-> out.err, ret |-> out.ret]
    /\ UNCHANGED <<registry_vars, heap, app, reqs>>

\* Another PrometheusRegistry() in the same process: lines 66-69 against the REGISTRY
\* as it is now.  Its metrics stay registered only if all five were built.
Construct ==
    /\ LET out == register_collectors([REGISTRY |-> REGISTRY, heap |-> heap, made |-> << >>,
                                       err |-> "none"],
                                      [n \in {} |-> 0], << >>, builds + 1)
       IN  /\ REGISTRY' = out.REGISTRY
           /\ heap' = Collect(out.heap, out.REGISTRY, collectors)
           /\ builds' = IF out.REGISTRY = REGISTRY THEN builds ELSE builds + 1
           /\ last' = [op |-> "PrometheusRegistry", arg |-> << >>, err |-> out.err,
                       ret |-> IF out.err = "none" THEN <<out.collectors>> ELSE << >>]
    /\ UNCHANGED <<collectors, custom_labeler, custom_label_names, app, reqs>>

Hooks ==
    \/ \E r \in 1..Len(reqs), t \in StartInstants : BeforeRequest(r, t)
    \/ \E r \in 1..Len(reqs), resp \in Responses : SkipStart(r, resp)
    \/ \E r \in 1..Len(reqs), resp \in Responses : ViewReturns(r, resp)
    \/ \E r \in 1..Len(reqs), exc \in HttpFaults \cup {GenericFault} : ViewRaises(r, exc)
    \/ \E r \in 1..Len(reqs), t \in EndInstants : ErrorHook(r, t)
    \/ \E r \in 1..Len(reqs), t \in EndInstants : AfterRequest(r, t)

\* Requests served while custom_route_labeler may be called at any time.
Next ==
    \/ InitApp
    \/ \E rq \in Requests : Arrive(rq)
    \/ Hooks
    \/ \E a \in LabelerArgs : CustomRouteLabeler(a.labeler, a.label_names)

Spec == Init /\ [][Next]_vars

\* Requests in flight together, each going from its start hook to its response;
\* custom_route_labeler is not called.
ConcurrentNext ==
    \/ InitApp
    \/ \E rq \in Requests : Enter(rq, MaxConcurrent)
    \/ \E r \in 1..Len(reqs), t \in StartInstants : BeforeRequest(r, t)
    \/ \E r \in 1..Len(reqs), resp \in Responses : ViewReturns(r, resp)
    \/ \E r \in 1..Len(reqs), t \in EndInstants : AfterRequest(r, t)

ConcurrentSpec == Init /\ [][ConcurrentNext]_vars

\* The public API called around one request: get and a further construction.
ApiNext ==
    \/ InitApp
    \/ \E rq \in Requests : Enter(rq, 1)
    \/ Hooks
    \/ \E a \in LabelerArgs : CustomRouteLabeler(a.labeler, a.label_names)
    \/ \E name \in GetNames : Get(name)
    \/ Construct

ApiSpec == Init /\ [][ApiNext]_vars

\* linear_bucket called on arguments drawn at the start.
BucketInit ==
    /\ REGISTRY = Constructed.REGISTRY
    /\ heap = Constructed.heap
    /\ collectors = Constructed.collectors
    /\ custom_labeler = << >>
    /\ custom_label_names = << >>
    /\ builds = 1
    /\ app \in {NoHooks, init_app(NoHooks)}
    /\ reqs = << >>
    /\ last \in {[op |-> "arguments", arg |-> a, err |-> "none", ret |-> << >>] :
                    a \in BucketArgs}

LinearBucket ==
    /\ last.op = "arguments"
    /\ last' = [op |-> "linear_bucket", arg |-> last.arg, err |-> "none",
                ret |-> <<linear_bucket(last.arg[1], last.arg[2], last.arg[3])>>]
    /\ UNCHANGED <<registry_vars, heap, app, reqs>>

BucketSpec == BucketInit /\ [][LinearBucket]_vars

----------------------------------------------------------------------------
(* Properties *)

Served(r) == reqs[r].pc = "done"
Instrumented(r) == reqs[r].path # MetricsPath
\* The request ended with a response and no hook of it raised last.
Completed(r) == Served(r) /\ reqs[r].response # << >> /\ reqs[r].err = "none"
StatusOf(r) == reqs[r].response[1].status_code
\* Some hook acts on request r in this step.
Acts(r) == reqs'[r] # reqs[r]

\* C1: every request off the exposition path whose start hook ran and that completes
\* with status S adds, over its whole lifecycle, exactly 1 to http_requests, and to
\* http_requests_errors 1 if S >= 400 and 0 otherwise.
C1_CountedOncePerRequest ==
    \A r \in 1..Len(reqs) :
        (Completed(r) /\ Instrumented(r) /\ reqs[r].started) =>
            /\ reqs[r].seen["http_requests"] = 1
            /\ reqs[r].seen["http_requests_errors"] = (IF StatusOf(r) >= 400 THEN 1 ELSE 0)

\* C2: a request whose handling raises an HTTPStatusException is observed exactly once
\* across the on-error hook and the after-response hook: http_requests,
\* http_request_duration_seconds and http_response_size_bytes get one observation each.
C2_ErrorPathObservedOnce ==
    \A r \in 1..Len(reqs) :
        (Completed(r) /\ Instrumented(r) /\ reqs[r].started
            /\ reqs[r].raised # << >> /\ reqs[r].raised[1].http) =>
            /\ reqs[r].seen["http_requests"] = 1
            /\ reqs[r].seen["http_request_duration_seconds"] = 1
            /\ reqs[r].seen["http_response_size_bytes"] = 1

\* C3: a fault that is no HTTPStatusException becomes a status-500 response and adds
\* exactly 1 to http_requests and 1 to http_requests_errors for that request.
C3_FaultCountedOnce ==
    \A r \in 1..Len(reqs) :
        (Completed(r) /\ Instrumented(r) /\ reqs[r].started
            /\ reqs[r].raised # << >> /\ ~reqs[r].raised[1].http) =>
            /\ StatusOf(r) = 500
            /\ reqs[r].seen["http_requests"] = 1
            /\ reqs[r].seen["http_requests_errors"] = 1

\* C4: no hook acting on a request to /metrics (start, response-ready or on-error)
\* changes an instrument or creates timing state.
C4_MetricsPathExcluded ==
    [][\A r \in 1..Len(reqs) :
          (reqs[r].path = MetricsPath /\ Acts(r)) =>
              /\ heap' = heap
              /\ reqs'[r].g = << >>
              /\ reqs'[r].seen = NothingSeen]_vars

\* A request to /metrics went through the start hook, the on-error hook and the
\* after-response hook.
C4_Witness ==
    \E r \in 1..Len(reqs) :
        /\ reqs[r].path = MetricsPath /\ Served(r) /\ reqs[r].started
        /\ reqs[r].raised # << >> /\ reqs[r].response # << >>

\* The call of custom_route_labeler in this step returned.
Relabelled == last' # last /\ last'.op = "custom_route_labeler" /\ last'.err = "none"

\* C5: when custom_route_labeler(fn, names) returns, every instrument of the collector
\* set has every name of names among its label names and holds no value; the label
\* names stay so whatever requests follow.
C5_RebuildResets ==
    /\ [][Relabelled =>
            \A n \in DOMAIN collectors' :
                /\ Range(last'.arg[1]) \subseteq Range(heap'[collectors'[n]].labelnames)
                /\ Count(heap'[collectors'[n]]) = 0]_vars
    /\ []((last.op = "custom_route_labeler" /\ last.err = "none") =>
            \A n \in DOMAIN collectors :
                Range(last.arg[1]) \subseteq Range(heap[collectors[n]].labelnames))

\* A request was observed, custom_route_labeler returned after it, and a hook of the
\* request has run since: the earlier observation is gone.
C5_Witness ==
    /\ last.op = "custom_route_labeler" /\ last.err = "none"
    /\ \E r \in 1..Len(reqs) :
          /\ Served(r) /\ reqs[r].seen["http_request_size_bytes"] = 1
          /\ reqs[r].seen["http_requests"] = 1
    /\ Total(heap, collectors, "http_request_size_bytes") = 0
    /\ Total(heap, collectors, "http_requests") = 1

RECURSIVE CountInstrumented(_)
CountInstrumented(k) ==
    IF k = 0 THEN 0
    ELSE (IF Instrumented(k) THEN 1 ELSE 0) + CountInstrumented(k - 1)

\* C6: requests in flight together, with no custom_route_labeler call: the timing
\* state a request's start hook wrote stays its own until its response is observed,
\* each request is observed exactly once, and when all have completed http_requests
\* summed over its label combinations is the number of requests off /metrics.
C6_ConcurrentObservedOnce ==
    /\ \A r \in 1..Len(reqs) :
          /\ (Instrumented(r) /\ reqs[r].started /\ ~Served(r)) => reqs[r].g \in {<<t>> : t \in StartInstants}
          /\ (Instrumented(r) /\ Served(r)) => reqs[r].seen["http_requests"] = 1
    /\ (\A r \in 1..Len(reqs) : Served(r)) =>
          Total(heap, collectors, "http_requests") = CountInstrumented(Len(reqs))

\* The request that arrived second is done and observed while the first, started, is
\* still waiting for its response hook.
C6_Witness ==
    /\ Len(reqs) >= 2
    /\ Instrumented(1) /\ Instrumented(2)
    /\ Served(2) /\ reqs[2].seen["http_requests"] = 1
    /\ reqs[1].pc = "after" /\ reqs[1].started
    /\ Total(heap, collectors, "http_requests") = 1

\* C7: constructing a PrometheusRegistry succeeds and yields the five instruments,
\* whether or not another one was constructed earlier in the process.
C7_ConstructionSucceeds ==
    last.op = "PrometheusRegistry" =>
        /\ last.err = "none"
        /\ DOMAIN last.ret[1] = MetricNames

\* C8: the response-ready hook on a request off /metrics that has no timing state does
\* not raise, returns the response it was given and changes no instrument.
C8_MissingTimingTolerated ==
    [][\A r \in 1..Len(reqs) :
          (reqs[r].pc = "after" /\ Instrumented(r) /\ reqs[r].g = << >> /\ Acts(r)) =>
              /\ heap' = heap
              /\ reqs'[r].err = "none"
              /\ reqs'[r].pc = "done"
              /\ reqs'[r].response = reqs[r].response
              /\ reqs'[r].seen = reqs[r].seen]_vars

\* A request the start hook never saw got its response through the hook.
C8_Witness ==
    \E r \in 1..Len(reqs) :
        /\ Completed(r) /\ Instrumented(r) /\ ~reqs[r].started
        /\ reqs[r].seen = NothingSeen

\* C9: whenever the response-ready hook returns, it returns the response it was given,
\* status code and content length unchanged: the host's response when it runs as the
\* after-response hook, the exception's response when the on-error hook calls it.
C9_ResponsePassedThrough ==
    [][\A r \in 1..Len(reqs) :
          /\ (reqs[r].pc = "after" /\ Acts(r) /\ reqs'[r].err = "none") =>
                reqs'[r].response = reqs[r].response
          /\ (reqs[r].pc = "error" /\ Acts(r) /\ reqs'[r].err = "none") =>
                reqs'[r].response = <<ErrorResponse(reqs[r].exc[1])>>]_vars

\* An error response was observed and handed back.
C9_Witness ==
    \E r \in 1..Len(reqs) :
        /\ Completed(r) /\ Instrumented(r) /\ reqs[r].started
        /\ StatusOf(r) >= 400
        /\ reqs[r].response[1].content_length = << >>
        /\ reqs[r].seen["http_requests_errors"] = 1

\* This step is a call of get.
Got == last' # last /\ last'.op = "get"

\* C10: get(name) returns the instrument of that name for each of the five metric
\* names; for any other name it fails with KeyError; either way the collector set,
\* the registry and every instrument's values are unchanged.
C10_GetLooksUp ==
    [][Got =>
          /\ UNCHANGED <<REGISTRY, heap, collectors, custom_labeler, custom_label_names>>
          /\ IF last'.arg[1] \in MetricNames
             THEN /\ last'.err = "none"
                  /\ last'.ret = <<collectors[last'.arg[1]]>>
                  /\ heap[last'.ret[1]].name = last'.arg[1]
             ELSE /\ last'.err = "KeyError"
                  /\ last'.ret = << >>]_vars

\* An unknown name was looked up while the instruments held values.
C10_Witness ==
    /\ last.op = "get" /\ last.err = "KeyError"
    /\ last.arg[1] \notin MetricNames
    /\ Total(heap, collectors, "http_requests") = 1

\* C11: linear_bucket(start, width, count), for width > 0 and count >= 0, is the
\* sequence of exactly count integers whose i-th element (from 0) is start + i*width;
\* linear_bucket(100, 100, 5) = [100, 200, 300, 400, 500].
C11_LinearBucket ==
    /\ last.op = "linear_bucket" =>
          LET start == last.arg[1]
              width == last.arg[2]
              count == last.arg[3]
              out == last.ret[1]
          IN  /\ Len(out) = count
              /\ \A i \in 0..(count - 1) : out[i + 1] = start + i * width
    /\ linear_bucket(100, 100, 5) = <<100, 200, 300, 400, 500>>

C11_Witness ==
    /\ last.op = "linear_bucket"
    /\ last.arg = <<100, 100, 5>>
    /\ last.ret = << <<100, 200, 300, 400, 500>> >>

\* C12: after init_app, and equally after construction with an app, the host has the
\* before-request hook, the after-response hook, the error handler and the /metrics
\* route registered; construction with an app and construction without one followed by
\* init_app leave the host, and everything else, in the same state.
RegisteredHost ==
    [before_request |-> <<"start_request">>, after_request |-> <<"end_request">>,
     error_handler |-> <<"abort_with_error">>, url_rule |-> <<"/metrics">>]

C13_FiveInstruments ==
    /\ DOMAIN collectors = MetricNames
    /\ Cardinality({collectors[n] : n \in DOMAIN collectors}) = Len(CollectorSpecs)
    /\ \A k \in 1..Len(CollectorSpecs) :
          LET spec == CollectorSpecs[k]
              m == heap[collectors[spec.name]]
          IN  /\ m.name = spec.name
              /\ m.kind = spec.kind
              /\ m.labelnames = spec.fixed \o custom_label_names

\* C14: after any sequence of custom_route_labeler calls the process-wide registry
\* holds exactly the instruments of the current collector set, so render() shows no
\* instrument or series of an earlier set; a rebuild unregisters every old instrument
\* before the new ones are created.
C14_OnlyCurrentSetLive ==
    /\ REGISTRY = {collectors[n] : n \in DOMAIN collectors}
    /\ render(REGISTRY, heap) =
          {[name |-> heap[collectors[n]].name,
            labelnames |-> heap[collectors[n]].labelnames,
            samples |-> heap[collectors[n]].samples] : n \in DOMAIN collectors}

\* C15: timing state is created in the before-hook and destroyed in the after-hook or
\* error-hook: once the response-ready logic has observed a request, the request has no
\* timing state any more, so the response-ready logic run again for it records nothing
\* (no instrument holds a second observation of the request).
C15_TimingStateDestroyed ==
    \A r \in 1..Len(reqs) :
        (Instrumented(r) /\ reqs[r].seen["http_requests"] >= 1) =>
            /\ reqs[r].g = << >>
            /\ \A n \in MetricNames : reqs[r].seen[n] <= 1

\* C16: each request goes IDLE -> STARTED -> (OBSERVED | ERRORED): the response-ready
\* logic records a request only if the start hook ran earlier for it (never while it is
\* IDLE), and OBSERVED and ERRORED are terminal, so a request once observed is not
\* recorded again.
C16_RequestStateMachine ==
    [][\A r \in 1..Len(reqs) :
          LET observes == \E n \in {"http_requests", "http_request_duration_seconds",
                                    "http_response_size_bytes"} :
                              reqs'[r].seen[n] # reqs[r].seen[n]
          IN  /\ observes => (reqs[r].started /\ reqs[r].g # << >>)
              /\ reqs[r].seen["http_requests"] >= 1 => reqs'[r].seen = reqs[r].seen]_vars

Labels(r) ==
    /\ Acts(r) /\ Instrumented(r)
    /\ \/ reqs[r].pc = "before" /\ reqs'[r].started
       \/ reqs[r].pc \in {"error", "after"} /\ reqs[r].g # << >>

\* C18: when the custom strategy returns a key set different from the declared extra
\* label names, the hook does not validate it and fails with the error of the labeling
\* call; a hook that fails leaves the values of every instrument unchanged.
C18_LabelMismatchFails ==
    [][\A r \in 1..Len(reqs) :
          Labels(r) =>
              /\ DOMAIN LabelsFor(custom_labeler) # Range(custom_label_names) =>
                    /\ reqs'[r].err = "ValueError"
                    /\ heap' = heap
              /\ reqs'[r].err # "none" => heap' = heap]_vars

\* The status codes a response of the model can carry.
StatusCodes == {resp.status_code : resp \in Responses}
                  \cup {ErrorResponse(exc).status_code : exc \in HttpFaults \cup {GenericFault}}

\* The value of a counter, the observations of a histogram, under label values lv.
SampleCount(m, lv) ==
    IF lv \notin DOMAIN m.samples THEN 0
    ELSE IF m.kind = "Counter" THEN m.samples[lv] ELSE m.samples[lv].count

\* C19: in every reachable state, for every label set {method, path, status, extra},
\* http_requests_errors equals http_requests when status >= 400 and is 0 when
\* status < 400; the error counter never exceeds the request counter.
C19_ErrorsFollowRequests ==
    LET requests == heap[collectors["http_requests"]]
        errors == heap[collectors["http_requests_errors"]]
    IN  \A lv \in DOMAIN requests.samples \cup DOMAIN errors.samples :
            /\ \E status \in StatusCodes :
                  /\ lv[3] = ToString(status)
                  /\ SampleCount(errors, lv) =
                        (IF status >= 400 THEN SampleCount(requests, lv) ELSE 0)
            /\ SampleCount(errors, lv) <= SampleCount(requests, lv)

\* A 404 was counted as a request and as an error, under an extra label.
C19_Witness ==
    \E lv \in DOMAIN heap[collectors["http_requests_errors"]].samples :
        /\ lv[3] = "404"
        /\ Len(lv) = 4
        /\ heap[collectors["http_requests_errors"]].samples[lv] >= 1
        /\ heap[collectors["http_requests"]].samples[lv] >= 1

====
